---- MODULE Spec2Model ----
(***************************************************************************)
(* A model of the slog structured logger (src/src/index.ts).               *)
(*                                                                         *)
(* Text is a sequence of code points (BMP, no surrogates), bytes are       *)
(* naturals below 256, and the byte at JavaScript index i of a typed array *)
(* is element i + 1 of the sequence that models it.  The shared buffer is  *)
(* held as the sequence of its bytes up to the highest index written so    *)
(* far; the bytes beyond it are the zeros of the fresh ArrayBuffer (ByteAt *)
(* reads them as 0).  Every buffer append of the source returns the new    *)
(* cursor; here it returns the record [t |-> the target after the append,  *)
(* p |-> the cursor, x |-> whether an exception escaped].                  *)
(***************************************************************************)
EXTENDS Integers, Sequences, FiniteSets, TLC

-----------------------------------------------------------------------------
(* Levels and static byte strings                                          *)

DEBUG == -4
INFO == 0
WARN == 4
ERROR == 8

BUFFER_SIZE == 8192

\* The number of nested serializeValueToBuffer frames at which the engine's
\* stack is exhausted (engines allow thousands; what follows is the same).
MaxStackDepth == 5

STATIC_DEBUG == <<32, 68, 69, 66, 85, 71, 32>>
STATIC_INFO == <<32, 73, 78, 70, 79, 32>>
STATIC_WARN == <<32, 87, 65, 82, 78, 32>>
STATIC_ERROR == <<32, 69, 82, 82, 79, 82, 32>>
STATIC_NEWLINE == <<10>>
\* Variant: the separator is a line feed.
STATIC_LINE_FEED == <<10>>
STATIC_SPACE == <<32>>
STATIC_EQUALS == <<61>>
STATIC_NULL == <<110, 117, 108, 108>>
STATIC_UNDEFINED == <<117, 110, 100, 101, 102, 105, 110, 101, 100>>
STATIC_TRUE == <<116, 114, 117, 101>>
STATIC_FALSE == <<102, 97, 108, 115, 101>>
STATIC_QUOTE == <<34>>
STATIC_BRACKET_OPEN == <<91>>
STATIC_BRACKET_CLOSE == <<93>>
STATIC_BRACE_OPEN == <<123>>
STATIC_BRACE_CLOSE == <<125>>
STATIC_COMMA == <<44>>
STATIC_COLON == <<58>>
STATIC_ZERO == <<48>>
STATIC_MINUS == <<45>>

TEXT_NaN == <<78, 97, 78>>
TEXT_Infinity == <<73, 110, 102, 105, 110, 105, 116, 121>>
TEXT_NegInfinity == <<45>> \o TEXT_Infinity

-----------------------------------------------------------------------------
(* Small helpers standing for built-ins of the language                    *)

\* K applied to the value of r, r being evaluated once: how the result of
\* one statement is handed to the statements after it.
Then(r, K(_)) == CHOOSE y \in {K(v) : v \in {r}} : TRUE

Min(a, b) == IF a <= b THEN a ELSE b

Max(a, b) == IF a >= b THEN a ELSE b

\* n copies of b
Rep(b, n) == [i \in 1..n |-> b] \o <<>>

\* target[i]
ByteAt(target, i) == IF i < Len(target) THEN target[i + 1] ELSE 0

\* target.subarray(from, to), as the bytes it shows
Subarray(target, from, to) ==
    IF to <= Len(target) THEN SubSeq(target, from + 1, to)
    ELSE [k \in 1..(to - from) |-> ByteAt(target, from + k - 1)] \o <<>>

\* Uint8Array.prototype.set(source, offset): source laid over target from
\* index offset on (the callers never pass more than fits).
TypedArraySet(target, offset, source) ==
    (IF offset <= Len(target) THEN SubSeq(target, 1, offset)
     ELSE target \o Rep(0, offset - Len(target)))
        \o source
        \o SubSeq(target, offset + Len(source) + 1, Len(target))

\* The UTF-8 encoding of one code point.
utf8(c) ==
    IF c < 128 THEN <<c>>
    ELSE IF c < 2048 THEN <<192 + (c \div 64), 128 + (c % 64)>>
    ELSE <<224 + (c \div 4096), 128 + ((c \div 64) % 64), 128 + (c % 64)>>

\* TextEncoder's encoding of str[lo..hi].
RECURSIVE encodeRange(_, _, _)
encodeRange(str, lo, hi) ==
    IF lo > hi THEN <<>>
    ELSE IF lo = hi THEN utf8(str[lo])
    ELSE LET mid == (lo + hi) \div 2
         IN  encodeRange(str, lo, mid) \o encodeRange(str, mid + 1, hi)

encode(str) == encodeRange(str, 1, Len(str))

\* TextEncoder.encodeInto(str, dest) for a dest of `room` bytes: the code
\* points are written whole, in order, for as long as the next one fits;
\* the result is the bytes written.
encodeInto(str, room) ==
    Then(encode(str), LAMBDA e :
        LET m == Min(room, Len(e))
            boundary(j) == j = Len(e) \/ (e[j + 1] \div 64) # 2
            cands == {j \in Max(0, m - 3)..m : boundary(j)}
        IN  SubSeq(e, 1, CHOOSE j \in cands : \A k \in cands : k <= j))

-----------------------------------------------------------------------------
(* Buffer appends                                                          *)

Ok(target, pos) == [t |-> target, p |-> pos, x |-> FALSE]

Thrown(target, pos) == [t |-> target, p |-> pos, x |-> TRUE]

\* Variant: the source is laid down whole, whatever room is left.
writeBytesUnclipped(target, offset, source) ==
    Ok(TypedArraySet(target, offset, source), offset + Len(source))

\* Lines 135-144.
writeBytes(target, offset, source) ==
    LET remainingSpace == BUFFER_SIZE - offset
    IN  IF remainingSpace <= 0 THEN Ok(target, offset)
        ELSE LET bytesToWrite == Min(Len(source), remainingSpace)
             IN  Ok(TypedArraySet(target, offset, SubSeq(source, 1, bytesToWrite)),
                    offset + bytesToWrite)

writeStringAsBytes(target, offset, str) ==
    LET remainingSpace == BUFFER_SIZE - offset
    IN  IF remainingSpace <= 0 THEN Ok(target, offset)
        ELSE IF \A i \in 1..Len(str) : str[i] <= 127
        THEN LET charsToWrite == Min(Len(str), remainingSpace)
             IN  Ok(TypedArraySet(target, offset, SubSeq(str, 1, charsToWrite)),
                    offset + charsToWrite)
        ELSE Then(encodeInto(str, BUFFER_SIZE - offset), LAMBDA bytes :
                Ok(TypedArraySet(target, offset, bytes), offset + Len(bytes)))

-----------------------------------------------------------------------------
(* State                                                                   *)

VARIABLES
    minimumLevel,          \* the configured minimum level
    defaultAttributes,     \* the default attribute object (its properties)
    logView,               \* the shared 8192-byte buffer
    cachedTimestampBytes,  \* 19 bytes, of which the first 17 are used
    cachedSecondsBytes,    \* 2 bytes
    lastCacheTime,         \* instant of the last refresh
    timestampLength,
    secondsLength,
    clock,                 \* the wall clock: what Date.now() returns
    stdoutWrites,          \* number of process.stdout.write calls so far
    stderrWrites,          \* number of process.stderr.write calls so far
    written,               \* the last flushed slice: [channel, length]
    call,                  \* the most recent logging call and its outcome
    history,               \* the configuration calls made, oldest first
    nCalls,                \* logging calls made
    channels               \* what a write to process.stdout / process.stderr
                           \* does: "open" (returns true), "full" (returns
                           \* false) or "broken" (throws)

cacheVars == <<cachedTimestampBytes, cachedSecondsBytes, lastCacheTime,
               timestampLength, secondsLength>>

vars == <<minimumLevel, defaultAttributes, logView, cachedTimestampBytes,
          cachedSecondsBytes, lastCacheTime, timestampLength, secondsLength,
          clock, stdoutWrites, stderrWrites, written, call, history, nCalls,
          channels>>

-----------------------------------------------------------------------------
(* Runtime values                                                          *)
(*                                                                         *)
(* A value is a record [t, k, neg, n, s, e]: t is what typeof and the      *)
(* identity tests of serializeValueToBuffer tell apart, the other fields   *)
(* carry the payload.  A finite number is its sign neg, the integer part n *)
(* of its magnitude and the digits s after its decimal point (none when    *)
(* Number.isInteger holds); an integral number at or beyond                *)
(* Number.MAX_SAFE_INTEGER has k = "big" and keeps its decimal digits in s.*)
(* An array keeps its elements in a, a plain object its own enumerable     *)
(* string-keyed properties, <<key, value>>, in enumeration order.          *)

V(t, k, neg, n, s, e) ==
    [t |-> t, k |-> k, neg |-> neg, n |-> n, s |-> s, e |-> e, a |-> <<>>]

Null == V("null", "", FALSE, 0, <<>>, <<>>)
Undefined == V("undefined", "", FALSE, 0, <<>>, <<>>)
Str(s) == V("string", "", FALSE, 0, s, <<>>)
Bool(b) == V("boolean", "", b, 0, <<>>, <<>>)
Num(neg, n, frac) == V("number", "fin", neg, n, frac, <<>>)
BigNum(neg, digits) == V("number", "big", neg, 0, digits, <<>>)
NaN == V("number", "nan", FALSE, 0, <<>>, <<>>)
Infinity == V("number", "inf", FALSE, 0, <<>>, <<>>)
NegInfinity == V("number", "ninf", TRUE, 0, <<>>, <<>>)
BigInt(neg, digits) == V("bigint", "", neg, 0, digits, <<>>)
Symbol(description) == V("symbol", "", FALSE, 0, description, <<>>)
Function(text) == V("function", "", FALSE, 0, text, <<>>)
Arr(elements) == [V("array", "", FALSE, 0, <<>>, <<>>) EXCEPT !.a = elements]
Obj(entries) == V("object", "", FALSE, 0, <<>>, entries)
\* An object whose toString is not Object.prototype.toString (an Error, a
\* Date, an object literal with its own toString); text is what it returns.
Describable(text) == V("describable", "", FALSE, 0, text, <<>>)
\* An object whose toString is the caller's function
\*     toString() { slog.info("inner"); return text }
Reentrant(text) == V("reentrant", "", FALSE, 0, text, <<>>)
\* A plain object o whose one property, key, holds o itself: o[key] = o.
Cyclic(key) == V("cyclic", "", FALSE, 0, key, <<>>)

\* The decimal digits of a positive integer, as bytes.
RECURSIVE DecimalText(_)
DecimalText(n) ==
    IF n < 10 THEN <<48 + n>> ELSE Append(DecimalText(n \div 10), 48 + (n % 10))

\* `${num}` for a finite num (below 1e21 and, when it has a fraction, at or
\* above 1e-6, so that no exponent is printed).
NumberToString(num) ==
    (IF num.neg /\ (num.k = "big" \/ num.n # 0 \/ num.s # <<>>) THEN <<45>> ELSE <<>>)
    \o (IF num.k = "big" THEN num.s
        ELSE IF num.s = <<>> THEN DecimalText(num.n)
        ELSE DecimalText(num.n) \o <<46>> \o num.s)

\* `${value}` for a bigint.
BigIntToString(value) == (IF value.neg THEN <<45>> ELSE <<>>) \o value.s

\* num < 0, num === 0, -num
IsNegative(num) == num.neg /\ (num.k = "big" \/ num.n # 0 \/ num.s # <<>>)

IsZero(num) == num.k = "fin" /\ num.n = 0 /\ num.s = <<>>

Negate(num) == [num EXCEPT !.neg = ~num.neg]

\* Number.isInteger(num) && num < Number.MAX_SAFE_INTEGER
IsSafeInteger(num) == num.k = "fin" /\ num.s = <<>>

\* Variant: the counting loop stops at the last digit instead of after it.
RECURSIVE countDigitsFromTen(_)
countDigitsFromTen(tempCount) ==
    IF tempCount >= 10 THEN 1 + countDigitsFromTen(tempCount \div 10) ELSE 0

RECURSIVE countDigits(_)
countDigits(tempCount) ==
    IF tempCount > 0 THEN 1 + countDigits(tempCount \div 10) ELSE 0

\* The loop of lines 214-218: digits from right to left.
RECURSIVE writeDigits(_, _, _)
writeDigits(target, writePos, temp) ==
    IF temp > 0
    THEN Then(TypedArraySet(target, writePos, <<48 + (temp % 10)>>), LAMBDA t :
            writeDigits(t, writePos - 1, temp \div 10))
    ELSE target

writeNumberAsBytes(target, offset, num) ==
    IF num.k = "nan" THEN writeStringAsBytes(target, offset, TEXT_NaN)
    ELSE IF num.k = "inf" THEN writeStringAsBytes(target, offset, TEXT_Infinity)
    ELSE IF num.k = "ninf" THEN writeStringAsBytes(target, offset, TEXT_NegInfinity)
    ELSE
    Then(IF IsNegative(num) THEN writeBytes(target, offset, STATIC_MINUS)
         ELSE Ok(target, offset), LAMBDA r0 :
    Then(IF IsNegative(num) THEN Negate(num) ELSE num, LAMBDA mag :
        IF IsZero(mag) THEN writeBytes(r0.t, r0.p, STATIC_ZERO)
        ELSE IF IsSafeInteger(mag)
        THEN Then(countDigits(mag.n), LAMBDA digitCount :
                IF r0.p + digitCount > BUFFER_SIZE THEN Ok(r0.t, r0.p)
                ELSE Ok(writeDigits(r0.t, r0.p + digitCount - 1, mag.n),
                        r0.p + digitCount))
        ELSE writeStringAsBytes(r0.t, offset, NumberToString(mag))))

RECURSIVE serializeValueToBuffer(_, _, _)
RECURSIVE serializeElements(_, _, _, _)
RECURSIVE serializeProperties(_, _, _, _)

\* Variant: the comma is written before every element, the first included.
serializeElementsCommaFirst(target, offset, value, i) ==
    IF i > Len(value) THEN Ok(target, offset)
    ELSE
    Then(writeBytes(target, offset, STATIC_COMMA), LAMBDA r0 :
    Then(serializeValueToBuffer(r0.t, r0.p, value[i]), LAMBDA r1 :
        IF r1.x THEN r1 ELSE serializeElements(r1.t, r1.p, value, i + 1)))

\* The loop of lines 251-254 from element i on (i counts from 1).
serializeElements(target, offset, value, i) ==
    IF i > Len(value) THEN Ok(target, offset)
    ELSE
    Then(IF i > 1 THEN writeBytes(target, offset, STATIC_COMMA)
         ELSE Ok(target, offset), LAMBDA r0 :
    Then(serializeValueToBuffer(r0.t, r0.p, value[i]), LAMBDA r1 :
        IF r1.x THEN r1 ELSE serializeElements(r1.t, r1.p, value, i + 1)))

\* The loop of lines 268-278 from property i on.
serializeProperties(target, offset, objectValue, i) ==
    IF i > Len(objectValue) THEN Ok(target, offset)
    ELSE
    Then(IF i > 1 THEN writeBytes(target, offset, STATIC_COMMA)
         ELSE Ok(target, offset), LAMBDA r0 :
    Then(writeBytes(r0.t, r0.p, STATIC_QUOTE), LAMBDA r1 :
    Then(writeStringAsBytes(r1.t, r1.p, objectValue[i][1]), LAMBDA r2 :
    Then(writeBytes(r2.t, r2.p, STATIC_QUOTE), LAMBDA r3 :
    Then(writeBytes(r3.t, r3.p, STATIC_COLON), LAMBDA r4 :
    Then(serializeValueToBuffer(r4.t, r4.p, objectValue[i][2]), LAMBDA r5 :
        IF r5.x THEN r5
        ELSE serializeProperties(r5.t, r5.p, objectValue, i + 1)))))))

\* typeof value === "object" (null apart), Array.isArray(value)
IsObject(value) == value.t \in {"array", "describable", "reentrant", "object", "cyclic"}

IsArray(value) == value.t = "array"

\* value.toString is a function other than Object.prototype.toString: so it
\* is for an array (Array.prototype.toString) as for a describable object.
HasCustomToString(value) == value.t \in {"array", "describable", "reentrant"}

\* String(value) as Array.prototype.join takes it: nothing for null and
\* undefined, the elements joined by commas for an array (a symbol makes
\* join throw; no array of the inputs holds one).
RECURSIVE StringOf(_)
RECURSIVE JoinStrings(_)
StringOf(value) ==
    CASE value.t \in {"null", "undefined"} -> <<>>
      [] value.t \in {"string", "function", "describable", "reentrant", "symbol"} -> value.s
      [] value.t = "number" ->
            IF value.k = "nan" THEN TEXT_NaN
            ELSE IF value.k = "inf" THEN TEXT_Infinity
            ELSE IF value.k = "ninf" THEN TEXT_NegInfinity
            ELSE NumberToString(value)
      [] value.t = "boolean" -> IF value.neg THEN STATIC_TRUE ELSE STATIC_FALSE
      [] value.t = "bigint" -> BigIntToString(value)
      [] value.t = "array" -> JoinStrings(value.a)
      \* "[object Object]"
      [] value.t = "object" ->
            <<91, 111, 98, 106, 101, 99, 116, 32, 79, 98, 106, 101, 99, 116, 93>>

JoinStrings(elements) ==
    IF elements = <<>> THEN <<>>
    ELSE IF Len(elements) = 1 THEN StringOf(elements[1])
    ELSE JoinStrings(SubSeq(elements, 1, Len(elements) - 1))
            \o <<44>> \o StringOf(elements[Len(elements)])

\* customToString.call(value)
toStringCall(value) == IF IsArray(value) THEN JoinStrings(value.a) ELSE value.s

\* Lines 248-256: an array, element by element.
serializeArray(target, offset, value) ==
    Then(writeBytes(target, offset, STATIC_BRACKET_OPEN), LAMBDA r0 :
    Then(serializeElements(r0.t, r0.p, value.a, 1), LAMBDA r1 :
        IF r1.x THEN r1 ELSE writeBytes(r1.t, r1.p, STATIC_BRACKET_CLOSE)))

\* Lines 264-278 for o = Cyclic(key): the brace, the quoted key, the colon,
\* then serializeValueToBuffer on o[key], which is o again, depth frames
\* deep.  No frame returns; the engine throws RangeError when its stack is
\* exhausted, here at MaxStackDepth frames.
RECURSIVE serializeCyclic(_, _, _, _)
serializeCyclic(target, offset, value, depth) ==
    IF depth > MaxStackDepth THEN Thrown(target, offset)
    ELSE
    Then(writeBytes(target, offset, STATIC_BRACE_OPEN), LAMBDA r0 :
    Then(writeBytes(r0.t, r0.p, STATIC_QUOTE), LAMBDA r1 :
    Then(writeStringAsBytes(r1.t, r1.p, value.s), LAMBDA r2 :
    Then(writeBytes(r2.t, r2.p, STATIC_QUOTE), LAMBDA r3 :
    Then(writeBytes(r3.t, r3.p, STATIC_COLON), LAMBDA r4 :
        serializeCyclic(r4.t, r4.p, value, depth + 1))))))

\* Lines 264-279: an object, property by property.
serializeGeneric(target, offset, value) ==
    IF value.t = "cyclic" THEN serializeCyclic(target, offset, value, 1)
    ELSE
    Then(writeBytes(target, offset, STATIC_BRACE_OPEN), LAMBDA r0 :
    Then(serializeProperties(r0.t, r0.p, value.e, 1), LAMBDA r1 :
        IF r1.x THEN r1 ELSE writeBytes(r1.t, r1.p, STATIC_BRACE_CLOSE)))

\* Variant: the toString test comes before the array test.
serializeObjectToStringFirst(target, offset, value) ==
    IF HasCustomToString(value)
    THEN writeStringAsBytes(target, offset, toStringCall(value))
    ELSE IF IsArray(value) THEN serializeArray(target, offset, value)
    ELSE serializeGeneric(target, offset, value)

\* The shared buffer once customToString.call(value) has returned: the
\* function runs in the middle of the rendering, and a function that logs
\* renders and flushes its own line in the buffer (innerInfo, below).
RECURSIVE innerInfo(_)
afterToString(target, value) ==
    IF value.t = "reentrant" THEN innerInfo(target) ELSE target

\* Lines 246-280: case "object".
serializeObject(target, offset, value) ==
    IF IsArray(value) THEN serializeArray(target, offset, value)
    ELSE IF HasCustomToString(value)
    THEN Then(afterToString(target, value), LAMBDA t :
            writeStringAsBytes(t, offset, toStringCall(value)))
    ELSE serializeGeneric(target, offset, value)

\* The logging calls begun by toString functions while value is serialized
\* (to the end: the count is taken for serializations that do not throw).
RECURSIVE nestedCalls(_)
RECURSIVE nestedCallsOf(_, _)
nestedCalls(value) ==
    CASE value.t = "reentrant" -> 1
      [] value.t = "array" -> nestedCallsOf(value.a, FALSE)
      [] value.t = "object" -> nestedCallsOf(value.e, TRUE)
      [] OTHER -> 0

nestedCallsOf(items, areEntries) ==
    IF items = <<>> THEN 0
    ELSE nestedCalls(IF areEntries THEN items[1][2] ELSE items[1])
         + nestedCallsOf(Tail(items), areEntries)

serializeValueToBuffer(target, offset, value) ==
    CASE value.t = "null" -> writeBytes(target, offset, STATIC_NULL)
      [] value.t = "undefined" -> writeBytes(target, offset, STATIC_UNDEFINED)
      [] value.t = "string" -> writeStringAsBytes(target, offset, value.s)
      [] value.t = "number" -> writeNumberAsBytes(target, offset, value)
      [] value.t = "boolean" ->
            writeBytes(target, offset, IF value.neg THEN STATIC_TRUE ELSE STATIC_FALSE)
      [] value.t = "bigint" -> writeStringAsBytes(target, offset, BigIntToString(value))
      \* `${value}` of a symbol is a TypeError
      [] value.t = "symbol" -> Thrown(target, offset)
      [] value.t = "function" -> writeStringAsBytes(target, offset, value.s)
      [] IsObject(value) -> serializeObject(target, offset, value)

-----------------------------------------------------------------------------
(* Plain objects: own string-keyed properties in enumeration order         *)

\* A canonical array index ("0", "7", "12"): such keys are enumerated first,
\* in ascending numeric order, whenever they were added.
IsArrayIndex(key) ==
    /\ Len(key) >= 1
    /\ Len(key) <= 9
    /\ \A i \in 1..Len(key) : key[i] >= 48 /\ key[i] <= 57
    /\ (Len(key) = 1 \/ key[1] # 48)

RECURSIVE IndexValue(_)
IndexValue(key) ==
    IF Len(key) = 0 THEN 0
    ELSE IndexValue(SubSeq(key, 1, Len(key) - 1)) * 10 + (key[Len(key)] - 48)

HasKey(obj, key) == \E i \in 1..Len(obj) : obj[i][1] = key

\* obj[key] = value
PutProperty(obj, key, value) ==
    IF HasKey(obj, key)
    THEN [i \in 1..Len(obj) |-> IF obj[i][1] = key THEN <<key, value>> ELSE obj[i]]
    ELSE IF IsArrayIndex(key)
    THEN LET before == Cardinality({i \in 1..Len(obj) :
                           IsArrayIndex(obj[i][1])
                           /\ IndexValue(obj[i][1]) < IndexValue(key)})
         IN  SubSeq(obj, 1, before) \o <<<<key, value>>>>
                \o SubSeq(obj, before + 1, Len(obj))
    ELSE Append(obj, <<key, value>>)

\* The object a literal { k1: v1, k2: v2, ... } evaluates to.
RECURSIVE ObjectLiteral(_)
ObjectLiteral(pairs) ==
    IF pairs = <<>> THEN <<>>
    ELSE Then(ObjectLiteral(SubSeq(pairs, 1, Len(pairs) - 1)), LAMBDA obj :
            PutProperty(obj, pairs[Len(pairs)][1], pairs[Len(pairs)][2]))

-----------------------------------------------------------------------------
(* Wall-clock instants and calendar fields                                 *)
(*                                                                         *)
(* An instant (a Date.now() reading) is [s |-> whole seconds since the     *)
(* epoch, ms |-> the milliseconds beyond them]; the local time zone is UTC.*)

Instant(s, ms) == [s |-> s, ms |-> ms]

\* Variant: the refresh waits for more than a second.
ElapsedMoreThanOneSecond(now, last) ==
    LET ds == now.s - last.s
    IN  IF ds >= 2 THEN TRUE
        ELSE IF ds <= -1 THEN FALSE
        ELSE ds * 1000 + (now.ms - last.ms) > 1000

\* now - lastCacheTime >= 1000
ElapsedAtLeastOneSecond(now, last) ==
    LET ds == now.s - last.s
    IN  IF ds >= 2 THEN TRUE
        ELSE IF ds <= -1 THEN FALSE
        ELSE ds * 1000 + (now.ms - last.ms) >= 1000

\* getFullYear, getMonth() + 1, getDate, getHours, getMinutes, getSeconds
\* of new Date(now): the proleptic Gregorian calendar.
DateFields(now) ==
    LET days == now.s \div 86400
        secs == now.s % 86400
        z == days + 719468
        era == z \div 146097
        doe == z - era * 146097
        yoe == (doe - (doe \div 1460) + (doe \div 36524) - (doe \div 146096)) \div 365
        doy == doe - (365 * yoe + (yoe \div 4) - (yoe \div 100))
        mp == (5 * doy + 2) \div 153
        d == doy - ((153 * mp + 2) \div 5) + 1
        m == IF mp < 10 THEN mp + 3 ELSE mp - 9
        y == yoe + era * 400 + (IF m <= 2 THEN 1 ELSE 0)
    IN  [year |-> y, month |-> m, day |-> d,
         hours |-> secs \div 3600, minutes |-> (secs \div 60) % 60,
         seconds |-> secs % 60]

-----------------------------------------------------------------------------
(* Views on the state                                                     *)

\* The bytes the last flushed slice shows (a view on logView).
Emitted == Subarray(logView, 0, written.length)

-----------------------------------------------------------------------------
(* Timestamp cache                                                         *)

\* Variant: the cache is never recomputed.
keepTimestampCache(now) ==
    [bytes |-> cachedTimestampBytes, tlen |-> timestampLength,
     secs |-> cachedSecondsBytes, slen |-> secondsLength,
     last |-> lastCacheTime, refreshed |-> FALSE]

\* The cache after updateTimestampCache() at reading now.
updateTimestampCache(now) ==
    IF ElapsedAtLeastOneSecond(now, lastCacheTime)
    THEN Then(DateFields(now), LAMBDA f :
             [bytes |-> <<48 + ((f.year \div 1000) % 10),
                           48 + ((f.year \div 100) % 10),
                           48 + ((f.year \div 10) % 10),
                           48 + (f.year % 10),
                           47,
                           48 + (f.month \div 10), 48 + (f.month % 10),
                           47,
                           48 + (f.day \div 10), 48 + (f.day % 10),
                           32,
                           48 + (f.hours \div 10), 48 + (f.hours % 10),
                           58,
                           48 + (f.minutes \div 10), 48 + (f.minutes % 10),
                           58>>
                        \o SubSeq(cachedTimestampBytes, 18, 19),
              tlen |-> 17,
              secs |-> <<48 + (f.seconds \div 10), 48 + (f.seconds % 10)>>,
              slen |-> 2,
              last |-> now,
              refreshed |-> TRUE])
    ELSE [bytes |-> cachedTimestampBytes, tlen |-> timestampLength,
          secs |-> cachedSecondsBytes, slen |-> secondsLength,
          last |-> lastCacheTime, refreshed |-> FALSE]

-----------------------------------------------------------------------------
(* Attributes                                                              *)

\* The loops of lines 291-299 and 302-310 from property i of obj on;
\* hasAny is the flag of line 288.
RECURSIVE writeEntries(_, _, _, _, _)
writeEntries(target, offset, obj, i, hasAny) ==
    IF i > Len(obj) THEN Ok(target, offset)
    ELSE
    Then(IF hasAny THEN writeBytes(target, offset, STATIC_SPACE)
         ELSE Ok(target, offset), LAMBDA r0 :
    Then(writeStringAsBytes(r0.t, r0.p, obj[i][1]), LAMBDA r1 :
    Then(writeBytes(r1.t, r1.p, STATIC_EQUALS), LAMBDA r2 :
    Then(serializeValueToBuffer(r2.t, r2.p, obj[i][2]), LAMBDA r3 :
        IF r3.x THEN r3 ELSE writeEntries(r3.t, r3.p, obj, i + 1, TRUE)))))

\* Variant: the call's entries are written before the default ones.
buildAttributesCallFirst(target, offset, attrs) ==
    Then(IF attrs.t = "undefined" THEN Ok(target, offset)
         ELSE writeEntries(target, offset, attrs.e, 1, FALSE), LAMBDA r0 :
        IF r0.x THEN r0
        ELSE writeEntries(r0.t, r0.p, defaultAttributes, 1,
                          attrs.t # "undefined" /\ attrs.e # <<>>))

buildAttributesToBuffer(target, offset, attrs) ==
    Then(writeEntries(target, offset, defaultAttributes, 1, FALSE), LAMBDA r0 :
        IF r0.x \/ attrs.t = "undefined" THEN r0
        ELSE writeEntries(r0.t, r0.p, attrs.e, 1, defaultAttributes # <<>>))

\* Variant: every object is taken to have a property.
hasOwnPropertiesAlways(obj) == TRUE

hasOwnProperties(obj) == Len(obj) > 0

-----------------------------------------------------------------------------
(* Logging calls                                                           *)

\* Lines 379-387: the level name written for a level.
\* Variant: the chain of level tests without its WARN branch.
levelBytesWithoutWarn(level) ==
    IF level = DEBUG THEN STATIC_DEBUG
    ELSE IF level = INFO THEN STATIC_INFO
    ELSE STATIC_ERROR

levelBytes(level) ==
    IF level = DEBUG THEN STATIC_DEBUG
    ELSE IF level = INFO THEN STATIC_INFO
    ELSE IF level = WARN THEN STATIC_WARN
    ELSE STATIC_ERROR

\* Lines 391-392: whether either tier has a key.
hasAttrs(attributes) ==
    \/ hasOwnProperties(defaultAttributes)
    \/ (attributes.t # "undefined" /\ hasOwnProperties(attributes.e))

\* Variant: the newline is only ever appended.
finalizeByAppend(target, pos) == writeBytes(target, pos, STATIC_NEWLINE)

\* Variant: the position moves past the newline's place, which is not written.
finalizeSkipping(target, pos) == Ok(target, Min(pos + 1, BUFFER_SIZE))

\* Lines 398-405: the newline is appended, or laid over the buffer's last byte.
finalize(target, pos) ==
    IF pos < BUFFER_SIZE THEN writeBytes(target, pos, STATIC_NEWLINE)
    ELSE Ok(TypedArraySet(target, BUFFER_SIZE - 1, <<STATIC_NEWLINE[1]>>), BUFFER_SIZE)

\* Lines 375-405: the line rendered into the buffer `target` from the cache c.
renderLineInto(target, c, levelName, message, attributes) ==
    Then(writeBytes(target, 0, SubSeq(c.bytes, 1, c.tlen)), LAMBDA r0 :
    Then(writeBytes(r0.t, r0.p, SubSeq(c.secs, 1, c.slen)), LAMBDA r1 :
    Then(writeBytes(r1.t, r1.p, levelName), LAMBDA r2 :
    Then(writeStringAsBytes(r2.t, r2.p, message), LAMBDA r3 :
    Then(IF hasAttrs(attributes)
         THEN Then(writeBytes(r3.t, r3.p, STATIC_SPACE), LAMBDA sp :
                 buildAttributesToBuffer(sp.t, sp.p, attributes))
         ELSE r3, LAMBDA r4 :
        IF r4.x THEN r4 ELSE finalize(r4.t, r4.p))))))

\* Variant: the line is rendered after what the buffer already holds.
renderLineAfterRemains(c, levelName, message, attributes) ==
    Then(renderLineInto(<<>>, c, levelName, message, attributes), LAMBDA r :
        [t |-> SubSeq(logView \o r.t, 1, Min(BUFFER_SIZE, Len(logView) + Len(r.t))),
         p |-> Min(BUFFER_SIZE, Len(logView) + r.p),
         x |-> r.x])

\* Lines 375-405 on the shared buffer.
renderLine(c, levelName, message, attributes) ==
    renderLineInto(logView, c, levelName, message, attributes)

\* Variant: the filter compares with INFO, whatever minimum was set.
belowInfo(level) == level < INFO

\* Line 371 (416, 451, 486, 521): the level filter.
belowMinimum(level) == level < minimumLevel

\* "inner"
InnerMessage == <<105, 110, 110, 101, 114>>

\* Lines 450-478 as run from inside a toString function: info("inner")
\* renders its line from the buffer's start and flushes it.
innerInfo(target) ==
    IF belowMinimum(INFO) THEN target
    ELSE Then(updateTimestampCache(clock), LAMBDA c :
            renderLineInto(target, c, STATIC_INFO, InnerMessage, Undefined).t)

\* Variant: WARN itself goes to the standard channel.
aboveWarn(level) == level > WARN

\* Line 407: the channel of log().
errorChannel(level) == level >= WARN

\* The timestamp bytes of the line last emitted, <<>> while there is none.
PriorLine ==
    IF call.op # "none" /\ call.passed /\ ~call.threw THEN call.stamp
    ELSE call.lastLine

\* The timestamp bytes the last passing call rendered (emitted or not).
PriorStamp ==
    IF call.op # "none" /\ call.passed THEN call.stamp ELSE call.lastPassed

\* Lines 327-331: the write of the selected channel throws, and flushBuffer,
\* which has no handler, lets it through to the caller.
writeThrows(isError) ==
    channels[IF isError THEN "stderr" ELSE "stdout"] = "broken"

\* Objects a passing call creates by the statements of log and flushBuffer
\* themselves: the two subarray views of lines 376-377, the Date of line 83
\* on a refresh, and the subarray view of line 326 when the line is flushed.
\* (The views of line 142, the view and result of line 172 and the strings
\* of lines 223-282 come on top.)
objectsCreated(c, r) ==
    2 + (IF c.refreshed THEN 1 ELSE 0) + (IF r.x THEN 0 ELSE 1)

\* The bytes the last flush before this call handed to its channel, as they
\* were when handed over (line 326: the slice is a view on logView, which
\* the channel may still hold); <<>> while there was no flush.
PriorSlice ==
    IF call.op # "none" /\ call.passed /\ ~call.threw THEN call.slice
    ELSE call.held

\* What `call` remembers of a logging call.
CallRecord(op, level, message, attributes, passed, c, r) ==
    [op |-> op, level |-> level, message |-> message, attributes |-> attributes,
     minimum |-> minimumLevel, defaults |-> defaultAttributes, clock |-> clock,
     before |-> logView, lastLine |-> PriorLine, lastPassed |-> PriorStamp,
     passed |-> passed, refreshed |-> c.refreshed,
     stamp |-> SubSeq(c.bytes, 1, c.tlen) \o SubSeq(c.secs, 1, c.slen),
     threw |-> r.x, pos |-> r.p, writeThrew |-> FALSE,
     slice |-> IF passed /\ ~r.x THEN Subarray(r.t, 0, r.p) ELSE <<>>,
     held |-> PriorSlice,
     nested |-> IF passed /\ ~r.x
                THEN nestedCalls(Obj(defaultAttributes)) + nestedCalls(attributes)
                ELSE 0,
     created |-> IF passed THEN objectsCreated(c, r) ELSE 0]

\* A logging call: op names the function called, level its level, levelName
\* the level bytes it writes and isError the channel it flushes to.
emit(op, level, levelName, isError, message, attributes) ==
    /\ nCalls' = nCalls + 1
    /\ UNCHANGED <<minimumLevel, defaultAttributes, clock, history, channels>>
    /\ IF belowMinimum(level)
       THEN /\ call' = CallRecord(op, level, message, attributes, FALSE,
                                  [refreshed |-> FALSE, bytes |-> <<>>, tlen |-> 0,
                                   secs |-> <<>>, slen |-> 0],
                                  Ok(logView, 0))
            /\ UNCHANGED <<logView, cacheVars, stdoutWrites, stderrWrites, written>>
       ELSE \E c \in {updateTimestampCache(clock)} :
            \E r \in {renderLine(c, levelName, message, attributes)} :
                /\ cachedTimestampBytes' = c.bytes
                /\ cachedSecondsBytes' = c.secs
                /\ lastCacheTime' = c.last
                /\ timestampLength' = c.tlen
                /\ secondsLength' = c.slen
                /\ logView' = r.t
                /\ call' = [CallRecord(op, level, message, attributes, TRUE, c, r)
                              EXCEPT !.writeThrew = ~r.x /\ writeThrows(isError)]
                /\ IF r.x
                   THEN UNCHANGED <<stdoutWrites, stderrWrites, written>>
                   ELSE /\ written' = [channel |-> IF isError THEN "stderr" ELSE "stdout",
                                       length |-> r.p]
                        /\ stdoutWrites' = stdoutWrites + (IF isError THEN 0 ELSE 1)
                              + (IF belowMinimum(INFO) THEN 0
                                 ELSE nestedCalls(Obj(defaultAttributes))
                                      + nestedCalls(attributes))
                        /\ stderrWrites' = stderrWrites + (IF isError THEN 1 ELSE 0)

log(level, message, attributes) ==
    emit("log", level, levelBytes(level), errorChannel(level), message, attributes)

debug(message, attributes) ==
    emit("debug", DEBUG, STATIC_DEBUG, FALSE, message, attributes)

info(message, attributes) ==
    emit("info", INFO, STATIC_INFO, FALSE, message, attributes)

\* Variant: warn flushes to the standard channel.
warnToStandard(message, attributes) ==
    emit("warn", WARN, STATIC_WARN, FALSE, message, attributes)

warn(message, attributes) ==
    emit("warn", WARN, STATIC_WARN, TRUE, message, attributes)

error(message, attributes) ==
    emit("error", ERROR, STATIC_ERROR, TRUE, message, attributes)

-----------------------------------------------------------------------------
(* Configuration calls                                                     *)

\* What a configuration call leaves alone, and its entry in the history.
configFrame(op, level, attributes) ==
    /\ history' = Append(history, [op |-> op, level |-> level, attributes |-> attributes])
    /\ UNCHANGED <<logView, cacheVars, clock, stdoutWrites, stderrWrites,
                   written, call, nCalls, channels>>

setDefaultLogLevel(level) ==
    /\ minimumLevel' = level
    /\ UNCHANGED defaultAttributes
    /\ configFrame("setDefaultLogLevel", level, <<>>)

setDefaultAttributes(attributes) ==
    /\ defaultAttributes' = attributes.e
    /\ UNCHANGED minimumLevel
    /\ configFrame("setDefaultAttributes", 0, attributes.e)

\* Variant: the added map takes the place of the default one.
mergeReplacing(obj, attributes, i) == attributes

\* The loop of lines 357-361 from property i of attributes on.
RECURSIVE mergeInto(_, _, _)
mergeInto(obj, attributes, i) ==
    IF i > Len(attributes) THEN obj
    ELSE Then(PutProperty(obj, attributes[i][1], attributes[i][2]), LAMBDA o :
            mergeInto(o, attributes, i + 1))

addDefaultAttributes(attributes) ==
    /\ defaultAttributes' = mergeInto(defaultAttributes, attributes.e, 1)
    /\ UNCHANGED minimumLevel
    /\ configFrame("addDefaultAttributes", 0, attributes.e)

\* Line 348 binds defaultAttributes to the object it is given, not to a copy:
\* once setDefaultAttributes has been called, the default map is an object
\* the caller holds too (addDefaultAttributes writes into it in place).
HeldByCaller ==
    \E i \in 1..Len(history) : history[i].op = "setDefaultAttributes"

\* The caller's own statement m[key] = value on the map m it passed to
\* setDefaultAttributes: no function of the logger is called.
CallerModifies(key, value) ==
    /\ HeldByCaller
    /\ defaultAttributes' = PutProperty(defaultAttributes, key, value)
    /\ defaultAttributes' # defaultAttributes
    /\ UNCHANGED <<minimumLevel, logView, cacheVars, clock, stdoutWrites,
                   stderrWrites, written, call, history, nCalls, channels>>

\* Time passes: the wall clock comes to read `reading`.
Tick(reading) ==
    /\ clock' = reading
    /\ UNCHANGED <<minimumLevel, defaultAttributes, logView, cacheVars,
                   stdoutWrites, stderrWrites, written, call, history, nCalls,
                   channels>>

\* The stream behind a channel changes condition: a slow reader fills it
\* (write returns false), or it breaks (write throws).
ChannelFault(channel, condition) ==
    /\ channels[channel] = "open"
    /\ channels' = [channels EXCEPT ![channel] = condition]
    /\ UNCHANGED <<minimumLevel, defaultAttributes, logView, cacheVars, clock,
                   stdoutWrites, stderrWrites, written, call, history, nCalls>>

-----------------------------------------------------------------------------
(* Inputs                                                                  *)

MaxCalls == 2
MaxConfig == 2
MaxDefaultsCalls == 3
MaxSlack == 6
MaxNumber == 110
MaxClockCalls == 3

Levels == {DEBUG, INFO, WARN, ERROR}

\* Levels passed to log(): the four constants and two numbers between them.
LogLevels == Levels \cup {2, 6}

\* "a", "b", "c", "1", "2"
KeyA == <<97>>
KeyB == <<98>>
KeyC == <<99>>
Key1 == <<49>>
Key2 == <<50>>

One == Num(FALSE, 1, <<>>)
Two == Num(FALSE, 2, <<>>)
Three == Num(FALSE, 3, <<>>)
Nine == Num(FALSE, 9, <<>>)

\* { k1: v1, ... } as an attribute argument
Attrs(pairs) == Obj(ObjectLiteral(pairs))

NoAttributes == Undefined

ClockReadings ==
    { Instant(1672909623, 999), Instant(1672909624, 0), Instant(1716804930, 500) }

Later(a, b) == a.s > b.s \/ (a.s = b.s /\ a.ms > b.ms)

\* "m"
ShortMessages == { <<109>> }

SmallAttributeSets == { NoAttributes, Attrs(<<<<KeyA, One>>>>) }

SmallDefaultSets == { Attrs(<<>>), Attrs(<<<<KeyB, Two>>>>) }

\* The literals of the maps passed to setDefaultAttributes and
\* addDefaultAttributes, each a sequence of <<key, value>> as written.
DefaultLiterals ==
    { <<>>,
      <<<<KeyA, One>>>>,
      <<<<KeyB, Two>>>>,
      <<<<KeyA, Nine>>>>,
      <<<<KeyB, Two>>, <<KeyA, Three>>>>,
      <<<<KeyC, Str(<<120>>)>>, <<Key1, Bool(TRUE)>>>> }

DefaultSets == { Attrs(literal) : literal \in DefaultLiterals }

\* The literals of the default maps of the rendering specification
RenderDefaultLiterals == { <<>>, <<<<KeyB, Two>>>>, <<<<KeyA, Nine>>>> }

\* Values given to attributes
Values ==
    { Null, Undefined,
      Str(<<>>), Str(<<120>>), Str(<<233>>), Str(<<108, 49, 10, 108, 50>>),
      Bool(TRUE), Bool(FALSE),
      Num(FALSE, 42, <<>>), Num(FALSE, 0, <<>>), Num(TRUE, 0, <<>>),
      Num(TRUE, 100, <<>>), Num(FALSE, 3, <<49, 52>>), Num(TRUE, 3, <<49, 52>>),
      Num(FALSE, 1234567890, <<>>),
      NaN, Infinity, NegInfinity,
      BigNum(FALSE, <<57, 48, 48, 55, 49, 57, 57, 50, 53, 52, 55, 52, 48, 57, 57, 50>>),
      BigNum(TRUE, <<57, 48, 48, 55, 49, 57, 57, 50, 53, 52, 55, 52, 48, 57, 57, 50>>),
      BigInt(FALSE, <<57, 48, 48, 55, 49, 57, 57, 50, 53, 52, 55, 52, 48, 57, 57, 49>>),
      BigInt(TRUE, <<55>>),
      Symbol(<<116, 101, 115, 116>>),
      Function(<<40, 41, 32, 61, 62, 32, 123, 125>>),
      Arr(<<>>),
      Arr(<<One, Str(<<116, 119, 111>>), Bool(TRUE), Null>>),
      Arr(<<Arr(<<One>>), Obj(<<<<KeyA, Num(TRUE, 5, <<>>)>>>>)>>),
      Obj(<<>>),
      Obj(<<<<KeyA, One>>, <<KeyB, Str(<<120>>)>>>>),
      Obj(<<<<KeyA, Obj(<<<<KeyB, Str(<<100>>)>>>>)>>>>),
      Arr(<<Obj(<<<<KeyA, Arr(<<Str(<<120>>), Arr(<<>>), Obj(<<>>)>>)>>>>)>>),
      Describable(<<69, 114, 114, 111, 114, 58, 32, 84>>),
      Cyclic(<<115, 101, 108, 102>>) }

\* The literals of the attribute arguments of the rendering specification
AttributeLiterals ==
    { <<>> }
    \cup { <<<<KeyA, v>>>> : v \in Values }
    \cup { <<<<KeyA, One>>, <<KeyB, Two>>, <<KeyC, Three>>>>,
           <<<<KeyB, One>>, <<Key2, Two>>, <<Key1, Three>>>>,
           <<<<KeyC, Num(TRUE, 100, <<>>)>>, <<KeyB, Num(FALSE, 12345, <<>>)>>,
             <<KeyA, Str(<<233, 233>>)>>>> }

AttributeSets == { NoAttributes } \cup { Attrs(literal) : literal \in AttributeLiterals }

\* A message that, with a 6-byte level name, ends j bytes short of the
\* buffer's end (j = 0: the message's last byte is the buffer's last byte).
EdgeMessage(j) == Rep(65, BUFFER_SIZE - 25 - j)

\* Messages of the rendering specification: "", "m", "a\nb", "é"; then
\* messages ending near the buffer's end, one that ends in a two-byte
\* character there, and messages beyond the buffer.
Messages == { <<>>, <<109>>, <<97, 10, 98>>, <<233>> }

EdgeMessages ==
    { EdgeMessage(j) : j \in 0..MaxSlack }
    \cup { Rep(65, BUFFER_SIZE - 28) \o <<233, 233>>,
           Rep(65, BUFFER_SIZE - 24), Rep(65, BUFFER_SIZE + 1808) }

\* Attribute arguments given with the messages that end near the buffer's end
EdgeAttributeSets ==
    { NoAttributes, Attrs(<<<<KeyA, One>>>>), Attrs(<<<<KeyA, Num(TRUE, 100, <<>>)>>>>),
      Attrs(<<<<KeyA, Str(<<233>>)>>>>), Attrs(<<<<KeyA, Cyclic(KeyB)>>>>),
      Attrs(<<<<KeyA, Num(FALSE, 100, <<>>)>>, <<KeyB, One>>>>) }

-----------------------------------------------------------------------------
(* Specifications                                                          *)

NoCall == [op |-> "none", level |-> 0, message |-> <<>>, attributes |-> NoAttributes,
           minimum |-> INFO, defaults |-> <<>>, clock |-> Instant(0, 0),
           before |-> <<>>, lastLine |-> <<>>, lastPassed |-> <<>>,
           passed |-> FALSE, refreshed |-> FALSE, stamp |-> <<>>,
           threw |-> FALSE, pos |-> 0, writeThrew |-> FALSE, nested |-> 0,
           slice |-> <<>>, held |-> <<>>,
           created |-> 0]

Init ==
    /\ minimumLevel = INFO
    /\ defaultAttributes = <<>>
    /\ logView = <<>>
    /\ cachedTimestampBytes = Rep(0, 19)
    /\ cachedSecondsBytes = Rep(0, 2)
    /\ lastCacheTime = Instant(0, 0)
    /\ timestampLength = 0
    /\ secondsLength = 0
    /\ clock = Instant(1672909623, 0)
    /\ stdoutWrites = 0
    /\ stderrWrites = 0
    /\ written = [channel |-> "none", length |-> 0]
    /\ call = NoCall
    /\ history = <<>>
    /\ nCalls = 0
    /\ channels = [stdout |-> "open", stderr |-> "open"]

\* Sequences of configuration calls, logging calls and clock advances.
Logging ==
    /\ nCalls < MaxCalls
    /\ \E message \in ShortMessages, attributes \in SmallAttributeSets :
          \/ \E level \in {INFO, WARN, 2} : log(level, message, attributes)
          \/ debug(message, attributes)
          \/ info(message, attributes)
          \/ warn(message, attributes)
          \/ error(message, attributes)

Configuring ==
    /\ Len(history) < MaxConfig
    /\ \/ \E level \in {DEBUG, WARN} : setDefaultLogLevel(level)
       \/ \E attributes \in SmallDefaultSets : setDefaultAttributes(attributes)
       \/ addDefaultAttributes(Attrs(<<<<KeyA, Two>>>>))

Ticking == \E reading \in ClockReadings : Later(reading, clock) /\ Tick(reading)

Next == Logging \/ Configuring \/ Ticking

Spec == Init /\ [][Next]_vars

\* Sequences of setDefaultLogLevel calls, logging calls at every level and
\* clock advances.
LoggingAtLevels ==
    /\ nCalls < MaxCalls
    /\ \E message \in ShortMessages :
          \/ \E level \in LogLevels : log(level, message, NoAttributes)
          \/ debug(message, NoAttributes)
          \/ info(message, NoAttributes)
          \/ warn(message, NoAttributes)
          \/ error(message, NoAttributes)

ConfiguringLevels ==
    /\ Len(history) < MaxConfig
    /\ \E level \in Levels : setDefaultLogLevel(level)

NextLevels == LoggingAtLevels \/ ConfiguringLevels \/ Ticking

SpecLevels == Init /\ [][NextLevels]_vars

\* Sequences of logging calls and clock advances; some calls are filtered
\* out (debug under the initial minimum) and some fail while serializing.
LoggingByTheClock ==
    /\ nCalls < MaxClockCalls
    /\ \E message \in ShortMessages :
          \/ info(message, NoAttributes)
          \/ info(message, Attrs(<<<<KeyA, Cyclic(KeyB)>>>>))
          \/ warn(message, Attrs(<<<<KeyA, One>>>>))
          \/ debug(message, NoAttributes)

NextClock == LoggingByTheClock \/ Ticking

SpecClock == Init /\ [][NextClock]_vars

\* Logging calls some of whose attribute values have a toString function
\* that logs, under each minimum level.
ReentrantAttributeSets ==
    { NoAttributes,
      Attrs(<<<<KeyA, One>>>>),
      Attrs(<<<<KeyA, Describable(<<120>>)>>>>),
      Attrs(<<<<KeyA, Reentrant(<<120>>)>>>>),
      Attrs(<<<<KeyA, One>>, <<KeyB, Reentrant(<<120>>)>>>>),
      Attrs(<<<<KeyA, Obj(<<<<KeyB, Reentrant(<<120>>)>>>>)>>>>) }

LoggingWithToString ==
    /\ nCalls < MaxCalls
    /\ \E message \in ShortMessages \cup {Rep(122, 40)},
          attributes \in ReentrantAttributeSets :
          \/ info(message, attributes)
          \/ error(message, attributes)
          \/ log(DEBUG, message, attributes)

ConfiguringMinimum ==
    /\ history = <<>>
    /\ \E level \in Levels : setDefaultLogLevel(level)

NextReentry == LoggingWithToString \/ ConfiguringMinimum

SpecReentry == Init /\ [][NextReentry]_vars

\* The wall clock is set back (a time-server step, an operator's change):
\* Date.now() comes to read less than before.
Adjusting == \E reading \in ClockReadings : Later(clock, reading) /\ Tick(reading)

NextWallClock == LoggingByTheClock \/ Ticking \/ Adjusting

SpecWallClock == Init /\ [][NextWallClock]_vars

\* Sequences of logging calls while the channels fill up or break.
LoggingToChannels ==
    /\ nCalls < MaxCalls
    /\ \E message \in ShortMessages, attributes \in SmallAttributeSets :
          \/ \E level \in Levels : log(level, message, attributes)
          \/ debug(message, attributes)
          \/ info(message, attributes)
          \/ warn(message, attributes)
          \/ error(message, attributes)

Faulting ==
    \E channel \in {"stdout", "stderr"}, condition \in {"full", "broken"} :
        ChannelFault(channel, condition)

NextChannels == LoggingToChannels \/ Faulting

SpecChannels == Init /\ [][NextChannels]_vars

\* Sequences of default-attribute calls, then the first logging call.
ConfiguringDefaults ==
    /\ call.op = "none"
    /\ Len(history) < MaxDefaultsCalls
    /\ \/ \E attributes \in DefaultSets : setDefaultAttributes(attributes)
       \/ \E attributes \in DefaultSets : addDefaultAttributes(attributes)

FirstCallShort ==
    /\ call.op = "none"
    /\ \E attributes \in SmallAttributeSets : info(<<109>>, attributes)

NextDefaults == ConfiguringDefaults \/ FirstCallShort

SpecDefaults == Init /\ [][NextDefaults]_vars

\* Default-attribute calls, changes the caller makes to a map it passed,
\* then the first logging call.
ConfiguringShared ==
    /\ call.op = "none"
    /\ Len(history) < MaxConfig
    /\ \/ \E attributes \in DefaultSets : setDefaultAttributes(attributes)
       \/ \E attributes \in DefaultSets : addDefaultAttributes(attributes)

Modifying ==
    /\ call.op = "none"
    /\ \E key \in {KeyA, KeyC}, value \in {Nine, Null} : CallerModifies(key, value)

NextAliasing == ConfiguringShared \/ Modifying \/ FirstCallShort

SpecAliasing == Init /\ [][NextAliasing]_vars

\* The first logging call, over the whole range of messages and attributes,
\* after at most one configuration call.
ConfiguringOnce ==
    /\ call.op = "none"
    /\ history = <<>>
    /\ \/ setDefaultLogLevel(DEBUG)
       \/ \E literal \in RenderDefaultLiterals : setDefaultAttributes(Attrs(literal))

FirstCall ==
    /\ call.op = "none"
    /\ \E message \in Messages, attributes \in AttributeSets :
          \/ \E level \in LogLevels : log(level, message, attributes)
          \/ info(message, attributes)

FirstCallAtEdge ==
    /\ call.op = "none"
    /\ \E message \in EdgeMessages, attributes \in EdgeAttributeSets :
          \/ log(ERROR, message, attributes)
          \/ info(message, attributes)

NextRender == ConfiguringOnce \/ FirstCall \/ FirstCallAtEdge

SpecRender == Init /\ [][NextRender]_vars

\* Two logging calls in a row on the shared buffer: the first leaves a
\* short line, a full buffer, or the remains of a failed serialization.
FirstOfTwo ==
    /\ call.op = "none"
    /\ \/ info(Rep(122, 40), NoAttributes)
       \/ error(Rep(65, BUFFER_SIZE + 1808), Attrs(<<<<KeyA, One>>>>))
       \/ info(<<109>>, Attrs(<<<<KeyA, Cyclic(KeyB)>>>>))

SecondOfTwo ==
    /\ nCalls = 1
    /\ \/ \E message \in Messages, attributes \in AttributeSets :
            \/ info(message, attributes)
            \/ log(WARN, message, attributes)
       \/ \E message \in EdgeMessages, attributes \in EdgeAttributeSets :
            info(message, attributes)

NextReuse == ConfiguringOnce \/ FirstOfTwo \/ SecondOfTwo

SpecReuse == Init /\ [][NextReuse]_vars

\* One append operation on the fresh buffer, from a cursor at the buffer's
\* start or within MaxSlack bytes of its end.  `call` remembers the
\* operation, the cursor and source it was given and the cursor it returned.
Cursors == {0} \cup (BUFFER_SIZE - MaxSlack)..BUFFER_SIZE

AppendRecord(op, offset, source, r) ==
    [op |-> op, offset |-> offset, source |-> source, pos |-> r.p, threw |-> r.x]

appended(op, offset, source, r) ==
    /\ call.op = "none"
    /\ logView' = r.t
    /\ call' = AppendRecord(op, offset, source, r)
    /\ UNCHANGED <<minimumLevel, defaultAttributes, cacheVars, clock, stdoutWrites,
                   stderrWrites, written, history, nCalls, channels>>

ByteSources == { STATIC_SPACE, STATIC_NULL, STATIC_UNDEFINED }

\* "", "abc", "é", "aé", "éé" and a string longer than the slack
StringSources ==
    { <<>>, <<97, 98, 99>>, <<233>>, <<97, 233>>, <<233, 233>>, Rep(122, MaxSlack + 2) }

NumberSources ==
    { One, Num(FALSE, 0, <<>>), Num(FALSE, 100, <<>>), Num(FALSE, 12345, <<>>),
      Num(TRUE, 7, <<>>), Num(TRUE, 100, <<>>), Num(FALSE, 3, <<49, 52>>),
      NaN, Infinity, NegInfinity }

AppendBytes ==
    \E offset \in Cursors, source \in ByteSources :
        appended("writeBytes", offset, source, writeBytes(logView, offset, source))

AppendString ==
    \E offset \in Cursors, str \in StringSources :
        appended("writeStringAsBytes", offset, str,
                 writeStringAsBytes(logView, offset, str))

AppendNumber ==
    \E offset \in Cursors, num \in NumberSources :
        appended("writeNumberAsBytes", offset, num,
                 writeNumberAsBytes(logView, offset, num))

NextAppends == AppendBytes \/ AppendString \/ AppendNumber \/ FirstCallAtEdge

SpecAppends == Init /\ [][NextAppends]_vars

\* Non-negative integers given as an attribute value: every one up to
\* MaxNumber, then ends of digit counts up to the largest the model holds.
NumberInputs ==
    0..MaxNumber
    \cup {999, 1000, 9999, 10000, 65535, 99999, 100000, 999999, 1000000,
           1234567890, 2147483647}

\* The first logging call, its attribute a non-negative integer.
NumberCall ==
    /\ call.op = "none"
    /\ \E n \in NumberInputs : info(<<>>, Attrs(<<<<KeyA, Num(FALSE, n, <<>>)>>>>))

SpecNumbers == Init /\ [][NumberCall]_vars

-----------------------------------------------------------------------------
(* Vocabulary of the properties                                            *)

\* The last logging call passed the filter and returned: it wrote its line.
Wrote == call.op # "none" /\ call.passed /\ ~call.threw

\* The minimum level that the configuration calls of h leave in force.
RECURSIVE MostRecentlySet(_)
MostRecentlySet(h) ==
    IF h = <<>> THEN INFO
    ELSE IF h[Len(h)].op = "setDefaultLogLevel" THEN h[Len(h)].level
    ELSE MostRecentlySet(SubSeq(h, 1, Len(h) - 1))

NewlinesIn(bytes) == Cardinality({i \in 1..Len(bytes) : bytes[i] = 10})

\* The text the serializer gives a value where nothing limits it.
ValueText(value) ==
    Then(serializeValueToBuffer(<<>>, 0, value), LAMBDA r : Subarray(r.t, 0, r.p))

EntryText(entry) == encode(entry[1]) \o <<61>> \o ValueText(entry[2])

\* key=value of each entry, one space between consecutive entries
RECURSIVE JoinEntries(_)
JoinEntries(entries) ==
    IF entries = <<>> THEN <<>>
    ELSE IF Len(entries) = 1 THEN EntryText(entries[1])
    ELSE JoinEntries(SubSeq(entries, 1, Len(entries) - 1))
            \o <<32>> \o EntryText(entries[Len(entries)])

\* The call-tier entries of the last call, and both tiers as the call saw them.
CallEntries == IF call.attributes.t = "undefined" THEN <<>> ELSE call.attributes.e

Entries == call.defaults \o CallEntries

\* Timestamp, level and message of the last call's line
LineHead == call.stamp \o levelBytes(call.level) \o encode(call.message)

\* The line made of the head and of the given entries
LineWith(entries) ==
    LineHead \o (IF entries = <<>> THEN <<>> ELSE <<32>> \o JoinEntries(entries)) \o <<10>>

Fits(line) == Len(line) <= BUFFER_SIZE

-----------------------------------------------------------------------------
(* Properties                                                              *)

\* C1: in any sequence of configuration and logging calls, a logging call
\* whose level is below the most recently set minimum level (INFO when none
\* was set) writes to neither channel and leaves the timestamp cache as it is.
C1_FilteredCallIsSilent ==
    [][ (nCalls' = nCalls + 1 /\ call'.level < MostRecentlySet(history))
        => /\ stdoutWrites' = stdoutWrites
           /\ stderrWrites' = stderrWrites
           /\ UNCHANGED cacheVars ]_vars

\* A call filtered by a minimum that was set, made a second or more after
\* the refresh of an earlier call.
C1_Witness ==
    /\ call.op # "none" /\ ~call.passed
    /\ call.minimum = WARN
    /\ lastCacheTime # Instant(0, 0)
    /\ ElapsedAtLeastOneSecond(call.clock, lastCacheTime)

\* C2: a logging call that passes the filter and returns performs exactly
\* one write, to the error channel when its level is >= WARN and to the
\* standard channel when it is < WARN, whatever the minimum level is.
C2_OneWriteToTheChannelOfTheLevel ==
    [][ (nCalls' = nCalls + 1 /\ call'.passed /\ ~call'.threw)
        => IF call'.level >= WARN
           THEN /\ stderrWrites' = stderrWrites + 1
                /\ stdoutWrites' = stdoutWrites
                /\ written'.channel = "stderr"
           ELSE /\ stdoutWrites' = stdoutWrites + 1
                /\ stderrWrites' = stderrWrites
                /\ written'.channel = "stdout" ]_vars

\* log(WARN, ...) under a minimum of DEBUG, after a line on the standard channel
C2_Witness ==
    /\ Wrote /\ call.op = "log" /\ call.level = WARN /\ call.minimum = DEBUG
    /\ stdoutWrites = 1 /\ stderrWrites = 1

\* C3: every byte range handed to a channel has at most 8192 bytes and ends
\* in the newline byte, whatever the length of the message and attributes.
C3_LineBoundedAndTerminated ==
    Wrote => /\ written.length >= 1
             /\ written.length <= BUFFER_SIZE
             /\ ByteAt(logView, written.length - 1) = 10

\* A message far longer than the buffer, written as a full buffer
C3_Witness ==
    Wrote /\ Len(call.message) > BUFFER_SIZE + 1000 /\ written.length = BUFFER_SIZE

\* C4, as stated: every byte range handed to a channel contains exactly one
\* newline byte, its last byte, whatever the message and attribute values.
C4_Original ==
    Wrote => NewlinesIn(Emitted) = 1 /\ Emitted[Len(Emitted)] = 10

\* C4: every byte range handed to a channel ends in a newline byte, and that
\* is its only newline byte when neither the message nor the text of any
\* attribute key or value contains one.
C4_OneLineWhenContentHasNoNewline ==
    Wrote => /\ Emitted[Len(Emitted)] = 10
             /\ (NewlinesIn(encode(call.message)) = 0 /\ NewlinesIn(JoinEntries(Entries)) = 0)
                    => NewlinesIn(Emitted) = 1

\* A line with entries of both tiers and no newline in its content
C4_Witness ==
    /\ Wrote /\ call.defaults # <<>> /\ Len(CallEntries) = 3
    /\ NewlinesIn(encode(call.message)) = 0 /\ NewlinesIn(JoinEntries(Entries)) = 0

\* The level names of the line format
LevelName(level) ==
    CASE level = DEBUG -> <<68, 69, 66, 85, 71>>
      [] level = INFO -> <<73, 78, 70, 79>>
      [] level = WARN -> <<87, 65, 82, 78>>
      [] level = ERROR -> <<69, 82, 82, 79, 82>>

\* The attribute block the logger builds for the last call where nothing
\* limits it (the default tier is the one in force).
AttributeBlock ==
    Then(buildAttributesToBuffer(<<>>, 0, call.attributes), LAMBDA r :
        Subarray(r.t, 0, r.p))

\* timestamp, space, level name, space, message, then a space and the
\* attribute block when an attribute exists, then a newline
FormattedLine ==
    call.stamp \o <<32>> \o LevelName(call.level) \o <<32>> \o encode(call.message)
        \o (IF Entries = <<>> THEN <<>> ELSE <<32>> \o AttributeBlock) \o <<10>>

\* C5: for a passing call at one of the four levels whose full rendering
\* fits in the buffer, the emitted bytes are exactly the 19-byte timestamp,
\* a space, the name of the level, a space, the message, then (only when an
\* attribute exists) a space and the attribute block, then a newline.
C5_LineFormat ==
    (Wrote /\ call.level \in {DEBUG, INFO, WARN, ERROR} /\ call.defaults = defaultAttributes
        /\ Fits(FormattedLine))
    => Len(call.stamp) = 19 /\ Emitted = FormattedLine

\* log(WARN, ...) with a message and attributes of both tiers
C5_Witness ==
    /\ Wrote /\ call.op = "log" /\ call.level = WARN
    /\ call.message # <<>> /\ call.defaults # <<>> /\ CallEntries # <<>>
    /\ Fits(FormattedLine)

\* The entries of seq whose key is integer-like, and the others
IndexEntries(seq) == SelectSeq(seq, LAMBDA entry : IsArrayIndex(entry[1]))

OtherEntries(seq) == SelectSeq(seq, LAMBDA entry : ~IsArrayIndex(entry[1]))

\* Entries with integer-like keys, by ascending key
RECURSIVE Ascending(_)
Ascending(seq) ==
    IF seq = <<>> THEN <<>>
    ELSE LET m == CHOOSE i \in 1..Len(seq) :
                    \A j \in 1..Len(seq) : IndexValue(seq[i][1]) <= IndexValue(seq[j][1])
         IN  <<seq[m]>> \o Ascending(SubSeq(seq, 1, m - 1) \o SubSeq(seq, m + 1, Len(seq)))

\* Own-property enumeration of entries given in insertion order (keys
\* distinct): integer-like keys ascending, then the others as inserted.
Enumerated(seq) == Ascending(IndexEntries(seq)) \o OtherEntries(seq)

KeysOf(entries) == {entries[i][1] : i \in 1..Len(entries)}

ValueOf(entries, key) == entries[CHOOSE i \in 1..Len(entries) : entries[i][1] = key][2]

\* The two tiers as one, a key of both having the call's value: at the
\* default's place, or at the call's place.
OverriddenInPlace ==
    [i \in 1..Len(call.defaults) |->
        IF call.defaults[i][1] \in KeysOf(CallEntries)
        THEN <<call.defaults[i][1], ValueOf(CallEntries, call.defaults[i][1])>>
        ELSE call.defaults[i]]
    \o SelectSeq(CallEntries, LAMBDA entry : entry[1] \notin KeysOf(call.defaults))

OverriddenAtEnd ==
    SelectSeq(call.defaults, LAMBDA entry : entry[1] \notin KeysOf(CallEntries))
        \o CallEntries

\* C7, as stated: when the call passes an attribute whose key is also in the
\* default set, the key appears once in the emitted line, with the call's
\* value.
C7_Original ==
    (Wrote /\ KeysOf(call.defaults) \cap KeysOf(CallEntries) # {} /\ Fits(LineWith(Entries)))
    => Emitted \in {LineWith(OverriddenInPlace), LineWith(OverriddenAtEnd)}

\* The default tier after addDefaultAttributes(m), by the stated rule: a key
\* already present keeps its place and takes the new value, a new key goes
\* to the end; i is the entry of m the fold has come to.
RECURSIVE AddedInPlaceOrAtEnd(_, _, _)
AddedInPlaceOrAtEnd(tier, m, i) ==
    IF i > Len(m) THEN tier
    ELSE AddedInPlaceOrAtEnd(
            IF m[i][1] \in KeysOf(tier)
            THEN [k \in 1..Len(tier) |-> IF tier[k][1] = m[i][1] THEN m[i] ELSE tier[k]]
            ELSE Append(tier, m[i]),
            m, i + 1)

\* The fold of the configuration calls of h, by the stated rule
RECURSIVE StatedFold(_)
StatedFold(h) ==
    IF h = <<>> THEN <<>>
    ELSE IF h[Len(h)].op = "setDefaultAttributes" THEN h[Len(h)].attributes
    ELSE IF h[Len(h)].op = "addDefaultAttributes"
    THEN AddedInPlaceOrAtEnd(StatedFold(SubSeq(h, 1, Len(h) - 1)), h[Len(h)].attributes, 1)
    ELSE StatedFold(SubSeq(h, 1, Len(h) - 1))

\* The same fold, each added map being enumerated as an object is
RECURSIVE EnumeratedFold(_)
EnumeratedFold(h) ==
    IF h = <<>> THEN <<>>
    ELSE IF h[Len(h)].op = "setDefaultAttributes" THEN h[Len(h)].attributes
    ELSE IF h[Len(h)].op = "addDefaultAttributes"
    THEN Enumerated(AddedInPlaceOrAtEnd(EnumeratedFold(SubSeq(h, 1, Len(h) - 1)),
                                        h[Len(h)].attributes, 1))
    ELSE EnumeratedFold(SubSeq(h, 1, Len(h) - 1))

MinusMagnitudeLine(v) ==
    LineHead \o <<32>> \o encode(KeyA) \o <<61, 45>> \o ValueText(Negate(v)) \o <<10>>

\* C10, as stated: every negative finite number, integer or not, is rendered
\* as the byte '-' followed by the rendering of its magnitude.
C10_Original ==
    \A v \in Values :
        (Wrote /\ call.defaults = <<>> /\ call.attributes = Attrs(<<<<KeyA, v>>>>)
            /\ v.t = "number" /\ v.k \in {"fin", "big"} /\ IsNegative(v)
            /\ Fits(MinusMagnitudeLine(v)))
        => Emitted = MinusMagnitudeLine(v)

\* The number a text of decimal digits denotes
RECURSIVE DigitsValue(_)
DigitsValue(text) ==
    IF text = <<>> THEN 0
    ELSE DigitsValue(SubSeq(text, 1, Len(text) - 1)) * 10 + (text[Len(text)] - 48)

\* text is the decimal numeral of n: digits only, no leading zero, value n
IsNumeralOf(text, n) ==
    /\ Len(text) >= 1
    /\ \A i \in 1..Len(text) : text[i] >= 48 /\ text[i] <= 57
    /\ (Len(text) = 1 \/ text[1] # 48)
    /\ DigitsValue(text) = n

\* The bytes writeNumberAsBytes lays down for num from offset on
NumberBytesAt(offset, num) ==
    Then(writeNumberAsBytes(<<>>, offset, num), LAMBDA r : Subarray(r.t, offset, r.p))

\* C11: for every integer n >= 0 below the safe-integer limit, where the
\* buffer has room for it, the digit path writes exactly the decimal digits
\* of n with no leading zero ("0" for zero): the text `${n}` gives.  Checked
\* on the emitted line and on the writer at offsets up to the last one that
\* leaves room.
C11_DigitsOfNonNegativeIntegers ==
    \A n \in NumberInputs :
        (Wrote /\ call.attributes = Attrs(<<<<KeyA, Num(FALSE, n, <<>>)>>>>))
        => /\ IsNumeralOf(ValueText(Num(FALSE, n, <<>>)), n)
           /\ ValueText(Num(FALSE, n, <<>>)) = NumberToString(Num(FALSE, n, <<>>))
           /\ Emitted = LineHead \o <<32, 97, 61>> \o NumberToString(Num(FALSE, n, <<>>))
                            \o <<10>>
           /\ \A offset \in {1, BUFFER_SIZE - Len(NumberToString(Num(FALSE, n, <<>>)))} :
                  NumberBytesAt(offset, Num(FALSE, n, <<>>))
                      = NumberToString(Num(FALSE, n, <<>>))

\* A line whose attribute is a ten-digit integer
C11_Witness ==
    Wrote /\ call.attributes = Attrs(<<<<KeyA, Num(FALSE, 1234567890, <<>>)>>>>)

\* The stated rendering of containers: '[' elements ']' and '{' "key":value
\* pairs '}', comma-joined, every other value as the serializer renders it
RECURSIVE Rendered(_)
RECURSIVE RenderedElements(_)
RECURSIVE RenderedPairs(_)
Rendered(value) ==
    IF value.t = "array" THEN <<91>> \o RenderedElements(value.a) \o <<93>>
    ELSE IF value.t = "object" THEN <<123>> \o RenderedPairs(value.e) \o <<125>>
    ELSE ValueText(value)

RenderedElements(elements) ==
    IF elements = <<>> THEN <<>>
    ELSE IF Len(elements) = 1 THEN Rendered(elements[1])
    ELSE RenderedElements(SubSeq(elements, 1, Len(elements) - 1))
            \o <<44>> \o Rendered(elements[Len(elements)])

RenderedPairs(pairs) ==
    IF pairs = <<>> THEN <<>>
    ELSE (IF Len(pairs) = 1 THEN <<>>
          ELSE RenderedPairs(SubSeq(pairs, 1, Len(pairs) - 1)) \o <<44>>)
         \o <<34>> \o encode(pairs[Len(pairs)][1]) \o <<34, 58>>
         \o Rendered(pairs[Len(pairs)][2])

\* C12: an array is rendered as '[', the comma-joined renderings of its
\* elements, ']', and a plain object as '{', the comma-joined "key":value
\* pairs in enumeration order, '}', keys in double quotes, values rendered
\* recursively and unquoted, at every depth; [] and {} when empty (lines
\* that fit).
C12_ContainersRendered ==
    \A v \in Values :
        (Wrote /\ v.t \in {"array", "object"} /\ call.defaults = <<>>
            /\ call.attributes = Attrs(<<<<KeyA, v>>>>)
            /\ Fits(LineHead \o <<32, 97, 61>> \o Rendered(v) \o <<10>>))
        => Emitted = LineHead \o <<32, 97, 61>> \o Rendered(v) \o <<10>>

\* An array holding an object that holds an array with text and empty containers
C12_Witness ==
    /\ Wrote /\ call.defaults = <<>>
    /\ call.attributes =
          Attrs(<<<<KeyA, Arr(<<Obj(<<<<KeyA, Arr(<<Str(<<120>>), Arr(<<>>), Obj(<<>>)>>)>>>>)>>)>>>>)

\* C13: an object that is no array and whose toString is not the generic
\* one is rendered as exactly the text toString returns, without braces or
\* keys; an array, whose toString is not the generic one either, is
\* rendered element by element between brackets (lines that fit).
C13_ToStringForObjectsNotArrays ==
    \A v \in Values :
        (Wrote /\ HasCustomToString(v) /\ call.defaults = <<>>
            /\ call.attributes = Attrs(<<<<KeyA, v>>>>)
            /\ Fits(LineHead \o <<32, 97, 61>> \o Rendered(v) \o <<10>>))
        => Emitted = LineHead \o <<32, 97, 61>>
                        \o (IF IsArray(v)
                            THEN <<91>> \o RenderedElements(v.a) \o <<93>>
                            ELSE encode(v.s))
                        \o <<10>>

\* A line whose attribute is an object with a toString of its own
C13_Witness ==
    /\ Wrote /\ call.defaults = <<>> /\ CallEntries # <<>>
    /\ CallEntries[1][2].t = "describable"
    /\ Emitted = LineHead \o <<32, 97, 61>> \o encode(CallEntries[1][2].s) \o <<10>>

\* "Symbol(" description ")"
SymbolText(value) == <<83, 121, 109, 98, 111, 108, 40>> \o value.s \o <<41>>

\* C14, as stated: a symbol passed as an attribute value is rendered as its
\* descriptive text and the call emits its line.
C14_Original ==
    \A v \in Values :
        (call.op # "none" /\ call.passed /\ v.t = "symbol" /\ call.defaults = <<>>
            /\ call.attributes = Attrs(<<<<KeyA, v>>>>)
            /\ Len(call.message) < 100)
        => /\ ~call.threw
           /\ written.channel # "none"
           /\ Emitted = LineHead \o <<32, 97, 61>> \o SymbolText(v) \o <<10>>

\* C15, as stated: serializing a value whose graph contains a cycle never
\* completes, the recursion going on for as long as the stack allows, also
\* once the buffer is full; the call fails and nothing is written to a
\* channel.  Serializing an acyclic value terminates and the call performs
\* its one write.
C15_Original ==
    \A v \in Values \cup {Cyclic(KeyB)} :
        (call.op # "none" /\ call.passed /\ call.defaults = <<>>
            /\ call.attributes = Attrs(<<<<KeyA, v>>>>))
        => IF v.t = "cyclic"
           THEN /\ call.threw
                /\ written.channel = "none" /\ stdoutWrites = 0 /\ stderrWrites = 0
                /\ call.pos = Min(BUFFER_SIZE,
                                  Len(LineHead) + 3 + MaxStackDepth * (Len(v.s) + 4))
           ELSE /\ ~call.threw
                /\ stdoutWrites + stderrWrites = 1

\* now is at least 1000 ms after last.
AtLeast1000msAfter(now, last) ==
    \/ now.s - last.s >= 2
    \/ now.s - last.s = 1 /\ now.ms >= last.ms
    \/ now.s = last.s /\ now.ms - last.ms >= 1000

\* This step is a logging call that passes the level filter.
PassingCall == nCalls' = nCalls + 1 /\ call'.passed

\* This step is a passing call that writes its line.
EmittingCall == PassingCall /\ ~call'.threw

\* C16, as stated: a passing call refreshes the timestamp cache exactly when
\* the clock reads at least 1000 ms more than at the last refresh; otherwise
\* the cache is untouched and the line's timestamp bytes are those of the
\* line emitted before it.
C16_Original ==
    [][PassingCall =>
        /\ call'.refreshed <=> AtLeast1000msAfter(clock, lastCacheTime)
        /\ ~call'.refreshed =>
              /\ UNCHANGED cacheVars
              /\ (EmittingCall /\ call'.lastLine # <<>>) =>
                    Subarray(logView', 0, 19) = call'.lastLine]_vars

\* C16, amended: a passing call refreshes the timestamp cache exactly when
\* the clock reads at least 1000 ms more than at the last refresh, and the
\* refresh is stamped with that reading; otherwise the cache is untouched
\* and the line's timestamp bytes are those rendered by the passing call
\* before it, which is the line emitted before it only if that call
\* completed.
C16_RefreshAfterOneSecond ==
    [][PassingCall =>
        /\ call'.refreshed <=> AtLeast1000msAfter(clock, lastCacheTime)
        /\ call'.refreshed => lastCacheTime' = clock
        /\ ~call'.refreshed =>
              /\ UNCHANGED cacheVars
              /\ EmittingCall => Subarray(logView', 0, 19) = call'.lastPassed]_vars

\* A line was emitted without a refresh, after a passing call that refreshed
\* the cache and failed, itself after an emitted line.
C16_Witness ==
    /\ Wrote /\ ~call.refreshed
    /\ call.lastLine # <<>>
    /\ call.lastPassed # call.lastLine
    /\ Subarray(logView, 0, 19) = call.lastPassed

\* The decimal digits of n, zero-padded to `width` characters.
ZeroPadded(n, width) ==
    [i \in 1..width |-> 48 + ((n \div (10 ^ (width - i))) % 10)] \o <<>>

\* YYYY/MM/DD HH:MM:SS of an instant.
TimestampOf(instant) ==
    LET f == DateFields(instant)
    IN  ZeroPadded(f.year, 4) \o <<47>> \o ZeroPadded(f.month, 2) \o <<47>>
        \o ZeroPadded(f.day, 2) \o <<32>> \o ZeroPadded(f.hours, 2) \o <<58>>
        \o ZeroPadded(f.minutes, 2) \o <<58>> \o ZeroPadded(f.seconds, 2)

\* C17: every emitted line, the first included, begins with 19 timestamp
\* bytes YYYY/MM/DD HH:MM:SS whose digits are ASCII digits and whose fields
\* are the zero-padded components of the instant of the last refresh.
C17_TimestampLayout ==
    Wrote =>
        /\ Len(Emitted) >= 19
        /\ Subarray(Emitted, 0, 19) = TimestampOf(lastCacheTime)
        /\ \A i \in 1..19 :
              IF i \in {5, 8} THEN Emitted[i] = 47
              ELSE IF i = 11 THEN Emitted[i] = 32
              ELSE IF i \in {14, 17} THEN Emitted[i] = 58
              ELSE Emitted[i] \in 48..57

\* A second line emitted within the second of the first, and a line whose
\* month, day, hour, minute and second all need padding.
C17_Witness ==
    /\ Wrote /\ ~call.refreshed /\ stdoutWrites + stderrWrites >= 2
    /\ LET f == DateFields(lastCacheTime)
       IN  f.month < 10 /\ f.day < 10 /\ f.hours < 10 /\ f.minutes < 10
           /\ f.seconds < 10

\* The last call handed its line to a channel in the given condition.
WroteTo(condition) ==
    /\ Wrote
    /\ channels[written.channel] = condition

\* C18, as stated: when the write of the selected channel fails, by throwing
\* or by reporting failure, the logging call still returns normally.
C18_Original ==
    (WroteTo("full") \/ WroteTo("broken")) => ~call.writeThrew

\* C19: the line a passing call emits after another passing call is the
\* line the same call renders into a fresh (zero-filled) buffer from the same
\* cached timestamp and default attributes: byte for byte and of the same
\* length, whatever the earlier call left in the shared buffer.
C19_NoLeakBetweenCalls ==
    [][(EmittingCall /\ call.op # "none" /\ call.passed) =>
        \E c \in {updateTimestampCache(clock)} :
        \E fresh \in {renderLineInto(<<>>, c, levelBytes(call'.level),
                                     call'.message, call'.attributes)} :
            /\ ~fresh.x
            /\ written'.length = fresh.p
            /\ Subarray(logView', 0, written'.length)
                   = Subarray(fresh.t, 0, fresh.p)]_vars

\* The second of two passing calls emitted a line shorter than what the
\* first left in the buffer, whose bytes are still there past the line.
C19_Witness ==
    /\ Wrote /\ nCalls = 2 /\ call.lastPassed # <<>>
    /\ written.length < Len(call.before)
    /\ ByteAt(logView, written.length) # 0
    /\ ByteAt(logView, written.length) = ByteAt(call.before, written.length)

\* C20, as stated: a logging call allocates nothing; it creates no object,
\* every step writing into the buffer and the timestamp cache made at load.
C20_Original ==
    (call.op # "none" /\ call.passed) => call.created = 0

\* The last step was one append operation.
Appended == call.op \in {"writeBytes", "writeStringAsBytes", "writeNumberAsBytes"}

\* The bytes an append was asked to write: the source bytes, the UTF-8
\* encoding of the text, the decimal text of the number.
Requested ==
    IF call.op = "writeBytes" THEN call.source
    ELSE IF call.op = "writeStringAsBytes" THEN encode(call.source)
    ELSE IF call.source.k = "nan" THEN TEXT_NaN
    ELSE IF call.source.k = "inf" THEN TEXT_Infinity
    ELSE IF call.source.k = "ninf" THEN TEXT_NegInfinity
    ELSE NumberToString(call.source)

\* C21, as stated: an append that is asked for more bytes than fit writes
\* exactly the bytes that fit, leaves the cursor at the capacity, and raises
\* no error.
C21_Original ==
    (Appended /\ Len(Requested) > BUFFER_SIZE - call.offset) =>
        /\ ~call.threw
        /\ call.pos = BUFFER_SIZE
        /\ Subarray(logView, call.offset, BUFFER_SIZE)
               = SubSeq(Requested, 1, BUFFER_SIZE - call.offset)

\* C22: the cursor an append returns is an integer from 0 to 8192 and is
\* not smaller than the cursor the append was given, and nothing is written
\* beyond the buffer; the cursor a logging call ends with is in the same
\* range, whatever its message and attribute values.
C22_CursorInRange ==
    /\ Len(logView) <= BUFFER_SIZE
    /\ call.op # "none" => call.pos \in 0..BUFFER_SIZE
    /\ Appended => call.pos >= call.offset

\* An append was given a cursor short of the buffer's end and more bytes
\* than fit, and returned the cursor at the capacity.
C22_Witness ==
    /\ Appended
    /\ call.offset \in 1..(BUFFER_SIZE - 1)
    /\ Len(Requested) > BUFFER_SIZE - call.offset
    /\ call.pos = BUFFER_SIZE

\* C23, as stated: whatever the calls and the readings of the wall clock,
\* the instant an emitted line's timestamp renders (that of the last
\* refresh) is not later than the reading at the call and less than 1000 ms
\* earlier than it.
C23_Original ==
    Wrote =>
        /\ ~Later(lastCacheTime, call.clock)
        /\ ~AtLeast1000msAfter(call.clock, lastCacheTime)

\* C24, as stated: between a logging call's first append and its flush
\* control never passes to code outside the logger, so no other logging call
\* begins while the buffer holds a partly rendered line.
C24_Original ==
    (call.op # "none" /\ call.passed) => call.nested = 0

\* C25, as stated: the default attributes change only in a step that is a
\* setDefaultAttributes or addDefaultAttributes call, and the defaults a
\* line shows are those the calls made so far give, whatever the caller has
\* done since to a map it passed to setDefaultAttributes.
C25_Original ==
    [][/\ defaultAttributes' # defaultAttributes =>
            /\ Len(history') = Len(history) + 1
            /\ history'[Len(history')].op
                   \in {"setDefaultAttributes", "addDefaultAttributes"}
       /\ (nCalls' = nCalls + 1 /\ call'.passed) =>
            call'.defaults = EnumeratedFold(history)]_vars

\* The level constant a convenience function stands for.
LevelOf(op) ==
    CASE op = "debug" -> DEBUG
      [] op = "info" -> INFO
      [] op = "warn" -> WARN
      [] op = "error" -> ERROR

\* C26: a step debug/info/warn/error(m, a) changes the state as
\* log(DEBUG/INFO/WARN/ERROR, m, a) does from the same state: filtered out
\* by the same test, and otherwise the same cache refresh, the same bytes in
\* the buffer, the same outcome and the same write to the same channel.
C26_ConvenienceIsLog ==
    [][(nCalls' = nCalls + 1 /\ call'.op \in {"debug", "info", "warn", "error"}) =>
        \E level \in {LevelOf(call'.op)} :
        IF level < minimumLevel
        THEN /\ ~call'.passed
             /\ UNCHANGED <<logView, cacheVars, written, stdoutWrites, stderrWrites>>
        ELSE \E c \in {updateTimestampCache(clock)} :
             \E r \in {renderLine(c, levelBytes(level), call'.message,
                                  call'.attributes)} :
                /\ call'.passed /\ call'.threw = r.x
                /\ logView' = r.t
                /\ cachedTimestampBytes' = c.bytes /\ cachedSecondsBytes' = c.secs
                /\ lastCacheTime' = c.last
                /\ timestampLength' = c.tlen /\ secondsLength' = c.slen
                /\ IF r.x
                   THEN UNCHANGED <<written, stdoutWrites, stderrWrites>>
                   ELSE /\ written' = [channel |-> IF level >= WARN THEN "stderr"
                                                   ELSE "stdout",
                                       length |-> r.p]
                        /\ stdoutWrites' = stdoutWrites + (IF level >= WARN THEN 0 ELSE 1)
                        /\ stderrWrites' = stderrWrites + (IF level >= WARN THEN 1 ELSE 0)]_vars

\* warn and debug have been called: the one wrote its line to the error
\* channel, the other was filtered out.
C26_Witness ==
    /\ nCalls = 2
    /\ call.op = "debug" /\ ~call.passed
    /\ written.channel = "stderr" /\ stderrWrites = 1
    /\ Subarray(logView, 19, 25) = STATIC_WARN

Carries(name) == Subarray(Emitted, 19, 19 + Len(name)) = name

\* C28, as stated: whatever number log is given as level, a line that
\* carries WARN or ERROR is written to the error channel and a line that
\* carries DEBUG or INFO to the standard channel.
C28_Original ==
    (Wrote /\ call.op = "log") =>
        /\ (Carries(STATIC_WARN) \/ Carries(STATIC_ERROR)) => written.channel = "stderr"
        /\ (Carries(STATIC_DEBUG) \/ Carries(STATIC_INFO)) => written.channel = "stdout"

\* C29, as stated: the range a call handed to a channel still shows that
\* call's line after a later call has rendered.
C29_Original ==
    (Wrote /\ call.held # <<>>) =>
        Subarray(logView, 0, Len(call.held)) = call.held

\* The last call emitted a line and the passing call before it failed while
\* rendering (specifications of two calls).
WroteAfterFailure ==
    Wrote /\ nCalls = 2 /\ call.lastPassed # <<>> /\ call.lastLine = <<>>

\* C30: a logging call that throws while rendering leaves the minimum level
\* and the default attributes as they were, and the passing call after it
\* emits a whole line of its own: ended by the newline, equal to the line
\* the call renders into a fresh buffer, hence to the formatted line of its
\* own level, message and attributes when that fits, with nothing of what
\* the failed call left in the buffer.
C30_NextLineAfterFailure ==
    /\ [][(nCalls' = nCalls + 1 /\ call'.threw) =>
            UNCHANGED <<minimumLevel, defaultAttributes>>]_vars
    /\ [](WroteAfterFailure =>
            /\ Emitted[Len(Emitted)] = 10
            /\ Fits(LineWith(Entries)) => Emitted = LineWith(Entries)
            /\ \E c \in {[bytes |-> cachedTimestampBytes, tlen |-> timestampLength,
                          secs |-> cachedSecondsBytes, slen |-> secondsLength]} :
               \E fresh \in {renderLineInto(<<>>, c, levelBytes(call.level),
                                            call.message, call.attributes)} :
                    Emitted = Subarray(fresh.t, 0, fresh.p))

\* A failed call left more in the buffer than the line emitted after it holds.
C30_Witness ==
    /\ WroteAfterFailure
    /\ Len(call.before) > written.length
    /\ ByteAt(call.before, written.length) # 0

====
